---- MODULE Spec2Model ----
(***************************************************************************)
(* Tactical: the versioned local object store (Version Chain Store).       *)
(*                                                                         *)
(* The key-value engine is the in-memory transaction of idb.ts, the        *)
(* Version helpers are those of tactical_store.ts.  The store operations   *)
(* with the outdated list, 'resolves' and 'abandon' follow section 4.2 of  *)
(* the specification.                                                      *)
(***************************************************************************)
EXTENDS Integers, Sequences, FiniteSets, TLC

\* ---------------------------------------------------------------- bounds
\* Mutation sub versions are drawn from 1..MaxSub (the code draws them from
\* 1..2^32-1).
MaxSub == 2
\* Longest outdated list the model lets a chain accumulate.
MaxOutdated == 2

Keys == {"k1"}
\* a key nothing is ever pushed for
NotKey == "notkey"
Bases == {"b1", "b2"}
\* values the backend pushes, and the value local mutations commit
Values == {"foo", "bar"}
MutationValues == {"foobaz"}
\* the context {} of a pushed record, and the contexts commits supply
EmptyContext == "{}"
Contexts == {"ctx"}

Null == [null |-> TRUE]

\* ---------------------------------------------------------------- serializeValue
\* JSON values: a string or number atom 'a', a boolean, null, an array of
\* 'items', or an object whose properties are 'keys' in enumeration order
\* with the values 'items'.  Strings are sequences of characters.
JAtom(t, a) == [t |-> t, a |-> a, keys |-> <<>>, items |-> <<>>]
JNull == JAtom("null", "")
JArr(items) == [t |-> "array", a |-> "", keys |-> <<>>, items |-> items]
JObj(keys, items) == [t |-> "object", a |-> "", keys |-> keys, items |-> items]

\* property names, and the longest array and property list
JsonKeys == {"a", "b"}
MaxLen == 2

\* the UTF-16 code unit of a one-character property name (what sort compares)
CodeUnit(k) == IF k = "a" THEN 97 ELSE IF k = "b" THEN 98 ELSE 99

\* keys.sort(): insertion of 'k' into a sorted list, and the sort
RECURSIVE Insert(_, _)
Insert(k, sorted) ==
  IF sorted = <<>> THEN <<k>>
  ELSE IF CodeUnit(k) <= CodeUnit(Head(sorted)) THEN <<k>> \o sorted
  ELSE <<Head(sorted)>> \o Insert(k, Tail(sorted))

\* a slip in serializeObject: the keys are left in enumeration order
Unsorted(keys) == keys

RECURSIVE Sort(_)
Sort(keys) == IF keys = <<>> THEN <<>> ELSE Insert(Head(keys), Sort(Tail(keys)))

\* obj[k]
Prop(obj, k) == obj.items[CHOOSE i \in 1..Len(obj.keys) : obj.keys[i] = k]

RECURSIVE SerializeValue(_)

\* the loop of serializeArray from index i
RECURSIVE SerializeItems(_, _)
SerializeItems(items, i) ==
  IF i > Len(items) THEN <<>>
  ELSE (IF i > 1 THEN <<",">> ELSE <<>>) \o SerializeValue(items[i])
         \o SerializeItems(items, i + 1)

\* serializeArray
SerializeArray(value) == <<"[">> \o SerializeItems(value.items, 1) \o <<"]">>

\* the loop of serializeObject over the sorted keys from index i
RECURSIVE SerializeProps(_, _, _)
SerializeProps(obj, keys, i) ==
  IF i > Len(keys) THEN <<>>
  ELSE (IF i > 1 THEN <<",">> ELSE <<>>) \o <<"\"", keys[i], "\"", ":">>
         \o SerializeValue(Prop(obj, keys[i])) \o SerializeProps(obj, keys, i + 1)

\* serializeObject
SerializeObject(obj) == <<"{">> \o SerializeProps(obj, Sort(obj.keys), 1) \o <<"}">>

\* serializeValue
SerializeValue(value) ==
  IF value.t = "string" THEN <<"\"", value.a, "\"">>
  ELSE IF value.t = "number" THEN <<value.a>>
  ELSE IF value.t = "boolean"
  THEN (IF value.a = "true" THEN <<"t", "r", "u", "e">> ELSE <<"f", "a", "l", "s", "e">>)
  ELSE IF value.t = "null" THEN <<"n", "u", "l", "l">>
  ELSE IF value.t = "array" THEN SerializeArray(value)
  ELSE SerializeObject(value)

\* the values serialized: atoms, arrays and objects of them, and arrays and
\* objects of a few of those
Atoms == {JAtom("string", "x"), JAtom("number", "1"), JAtom("boolean", "true"), JNull}
KeyLists ==
  {ks \in UNION {[1..n -> JsonKeys] : n \in 0..MaxLen} :
     \A i, j \in 1..Len(ks) : i # j => ks[i] # ks[j]}
ArraysOf(S) == {JArr(items) : items \in UNION {[1..n -> S] : n \in 0..MaxLen}}
ObjectsOf(S) ==
  UNION {{JObj(ks, items) : items \in [1..Len(ks) -> S]} : ks \in KeyLists}
Nested ==
  {JAtom("string", "x"),
   JObj(<<"a", "b">>, <<JAtom("string", "x"), JNull>>),
   JObj(<<"b", "a">>, <<JNull, JAtom("string", "x")>>),
   JArr(<<JAtom("string", "x"), JNull>>),
   JArr(<<JNull, JAtom("string", "x")>>)}
JsonValues ==
  Atoms \cup ArraysOf(Atoms) \cup ObjectsOf(Atoms) \cup ArraysOf(Nested) \cup ObjectsOf(Nested)

\* nothing has been serialized
NewJson == [done |-> FALSE]

\* ---------------------------------------------------------------- Version
PlainVersion(base, sub) == [base |-> base, sub |-> sub]

Versions == {PlainVersion(b, s) : b \in Bases, s \in 0..MaxSub}

\* a slip in Version.isInitial: every sub passes for initial
IsInitialLoose(v) == v.sub >= 0

\* a slip in Version.isInitial: no sub passes for initial
IsInitialNever(v) == v.sub < 0

\* Version.isInitial
IsInitial(v) == v.sub = 0

\* Version.initial
Initial(v) == PlainVersion(v.base, 0)

\* Version._randomId: the ids the generator can return
RandomIds == 1..MaxSub

\* a slip in Version.next: the generated id is dropped
VersionNextSame(v, id) == PlainVersion(v.base, v.sub)

\* Version.next, for the id the generator returned
VersionNext(v, id) == PlainVersion(v.base, id)

\* Version.isEqual
VersionIsEqual(v, w) == v.base = w.base /\ v.sub = w.sub

\* Version.serial = serializeValue({base, sub}): '{"base":<base>,"sub":<sub>}'
VersionSerial(v) == <<"{", "base", v.base, "sub", v.sub, "}">>

\* The keys of the application, by name: "str" is the string '{"a":1}',
\* "obj" the object {a: 1}, every other name a string that is the name.
StringKey(chars) == [isString |-> TRUE, chars |-> chars, value |-> JNull]
ObjectKey(value) == [isString |-> FALSE, chars |-> <<>>, value |-> value]
AppKey(k) ==
  IF k = "str" THEN StringKey(<<"{", "\"", "a", "\"", ":", "1", "}">>)
  ELSE IF k = "obj" THEN ObjectKey(JObj(<<"a">>, <<JAtom("number", "1")>>))
  ELSE StringKey(<<k>>)

\* ChainKey.serial: a string key is its own serial, any other key is
\* serialized with serializeValue
ChainKeySerial(k) ==
  LET key == AppKey(k)
  IN IF key.isString THEN key.chars ELSE SerializeValue(key.value)

\* RecordKey.serial = chainKey.serial + version.serial
RecordKeySerial(k, v) == ChainKeySerial(k) \o VersionSerial(v)

\* ---------------------------------------------------------------- KV engine
ChainsStore == "chains"
RecordsStore == "records"

EmptyStore == [x \in {} |-> x]

\* a slip in InMemoryTransaction.get: the key is ignored, some entry of the
\* store is handed back
TxnGetAny(d, store, key) ==
  IF DOMAIN d[store] = {} THEN Null
  ELSE d[store][CHOOSE x \in DOMAIN d[store] : TRUE]

\* a slip in InMemoryTransaction.get: the value read is not handed back
TxnGetNothing(d, store, key) == Null

\* InMemoryTransaction.get: db[store][key], absent keys read as null
TxnGet(d, store, key) == IF key \in DOMAIN d[store] THEN d[store][key] ELSE Null

\* InMemoryTransaction.put: db[store][key] = value
TxnPut(d, store, key, value) ==
  [d EXCEPT ![store] = [x \in (DOMAIN @) \cup {key} |-> IF x = key THEN value ELSE @[x]]]

\* a slip in InMemoryTransaction.remove: nothing is deleted
TxnRemoveNothing(d, store, key) == d

\* InMemoryTransaction.remove: delete db[store][key]
TxnRemove(d, store, key) ==
  [d EXCEPT ![store] = [x \in (DOMAIN @) \ {key} |-> @[x]]]

\* InMemoryTransaction.remove, its result: false when the key is absent
TxnRemoveOk(d, store, key) == key \in DOMAIN d[store]

\* a slip in InMemoryTransaction.get: the entry read is taken out of the store
TxnGetTakes(d, store, key) == TxnRemove(d, store, key)

\* InMemoryTransaction.get, its effect on the database: none
TxnGetDb(d, store, key) == d

\* ---------------------------------------------------------------- records
Entry(value, context) == [value |-> value, context |-> context]

Record(version, entry) ==
  [version |-> version, value |-> entry.value, context |-> entry.context]

\* TacticalStore._fetchRecord
FetchRecord(d, k, v) ==
  LET e == TxnGet(d, RecordsStore, RecordKeySerial(k, v))
  IN IF e = Null THEN Null ELSE Record(v, e)

\* TacticalStore.fetch(key, version?)
Fetch(d, k, v) ==
  IF v # Null THEN FetchRecord(d, k, v)
  ELSE LET state == TxnGet(d, ChainsStore, ChainKeySerial(k))
       IN IF state = Null THEN Null ELSE FetchRecord(d, k, state.current)

\* a slip in TacticalStore._remove: the record of an initial version is kept
RemoveMutationOnly(d, k, version) ==
  IF version.sub # 0
  THEN TxnRemove(d, RecordsStore, RecordKeySerial(k, version))
  ELSE d

\* TacticalStore._remove: the record of 'version' and, for a mutation, the
\* record of its initial version
Remove(d, k, version) ==
  IF IsInitial(version)
  THEN TxnRemove(d, RecordsStore, RecordKeySerial(k, version))
  ELSE TxnRemove(TxnRemove(d, RecordsStore, RecordKeySerial(k, version)),
                 RecordsStore, RecordKeySerial(k, Initial(version)))

\* TacticalStore._remove, its result: left && right of the two removes
RemoveOk(d, k, version) ==
  IF IsInitial(version)
  THEN TxnRemoveOk(d, RecordsStore, RecordKeySerial(k, version))
  ELSE /\ TxnRemoveOk(d, RecordsStore, RecordKeySerial(k, version))
       /\ TxnRemoveOk(TxnRemove(d, RecordsStore, RecordKeySerial(k, version)),
                      RecordsStore, RecordKeySerial(k, Initial(version)))

\* ---------------------------------------------------------------- Stream
\* observers.splice(i, 1) for the first i with observers[i] === observer
RECURSIVE RemoveFirstOf(_, _)
RemoveFirstOf(seq, o) ==
  IF seq = <<>> THEN <<>>
  ELSE IF Head(seq) = o THEN Tail(seq)
  ELSE <<Head(seq)>> \o RemoveFirstOf(Tail(seq), o)

\* the observers that can subscribe, each once (a subscription makes its own
\* observer), and the values sent
Observers == {"o1", "o2"}
Sent == {"hello", "goodbye"}
\* how many times send is called, and how deep send calls nest
MaxSends == 3
MaxDepth == 2
\* how many times close is called
MaxCloses == 1

\* new Stream(onDisconnect)
NewStream ==
  [observers |-> <<>>, previous |-> Null, seenInitialValue |-> FALSE,
   observersLock |-> FALSE, disconnectBuffer |-> <<>>]

\* A Stream 's' with what its surroundings see of it.
\*   live        the observers whose subscription is not disposed
\*   used        the observers that have subscribed
\*   received    what each observer's onNext was called with, in order
\*   sent        the values send was called with, in call order
\*   at          per observer, how many sends had been called when it subscribed
\*   stack       the send calls in progress, innermost last
\*   disconnects how many times onDisconnect was called
\*   zeroed      how many times the number of live observers went from 1 to 0
\*   finished    the send call that returned last
\*   closing     the close call in progress
\*   completed   the observers whose onCompleted was called
\*   closes      how many times close was called
\*   closed      the close call that returned last
StreamInit ==
  [s |-> NewStream, live |-> {}, used |-> {},
   received |-> [o \in Observers |-> <<>>], sent |-> <<>>,
   at |-> [o \in Observers |-> 0], stack |-> <<>>,
   disconnects |-> 0, zeroed |-> 0, finished |-> Null,
   closing |-> Null, completed |-> {}, closes |-> 0, closed |-> Null]

\* a slip in Stream._disconnected: the lock is not looked at
DisconnectedNow(t, o) ==
  LET obs == RemoveFirstOf(t.s.observers, o)
  IN [t EXCEPT !.s.observers = obs,
               !.disconnects = IF Len(obs) = 0 THEN @ + 1 ELSE @]

\* Stream._disconnected: postponed while the observers are iterated, else the
\* observer is spliced out and onDisconnect called when none is left
Disconnected(t, o) ==
  IF t.s.observersLock
  THEN [t EXCEPT !.s.disconnectBuffer = Append(@, o)]
  ELSE LET obs == RemoveFirstOf(t.s.observers, o)
       IN [t EXCEPT !.s.observers = obs,
                    !.disconnects = IF Len(obs) = 0 THEN @ + 1 ELSE @]

\* _disconnectBuffer.forEach(obs => this._disconnected(obs))
RECURSIVE DisconnectAll(_, _)
DisconnectAll(t, buffer) ==
  IF buffer = <<>> THEN t
  ELSE DisconnectAll(Disconnected(t, Head(buffer)), Tail(buffer))

\* Stream._unlockObservers
UnlockObservers(t) ==
  LET t1 == [t EXCEPT !.s.observersLock = FALSE]
      t2 == DisconnectAll(t1, t1.s.disconnectBuffer)
  IN [t2 EXCEPT !.s.disconnectBuffer = <<>>]

\* ---------------------------------------------------------------- Data Manager
\* the applications holding observables of the Data Manager
Clients == {"c1", "c2"}
\* Streams the Data Manager creates, subscriptions the clients make, objects
\* loaded into the backend and Updater.commit calls, at most
MaxStreams == 2
MaxSubscriptions == 2
MaxFrames == 2
MaxCommits == 2
\* store operations started and not yet run, at most
MaxOps == 2

\* the one key the clients ask for
DmKey == "k1"

\* the context of a record built from a data frame: new Record(version, data)
Undefined == "undefined"
\* mutationContext of a data frame: none, or the context {} of a commit
MutationContexts == {"null", EmptyContext}

\* a VersionedObject of the backend
VersionedObject(version, data, mutationContext) ==
  [version |-> version, data |-> data, mutationContext |-> mutationContext]

\* new Record(new Version(data.version), data.data)
FrameRecord(f) ==
  [version |-> PlainVersion(f.version, 0), value |-> f.data, context |-> Undefined]

\* new Stream(() => { delete this._stream[keyStr]; }), with
\*   disconnects  how many times its onDisconnect was called
\*   subscribed   has it had a subscriber
NewDmStream == [s |-> NewStream, disconnects |-> 0, subscribed |-> FALSE]

\* new TacticalDataManager(backend, store) over a FakeBackend
\*   streams   every Stream _open has created, in creation order
\*   entry     _stream[keyStr] as an index of streams, 0 when there is none
\*   handle    per client, the stream of the observable request/beginUpdate
\*             returned to it last (0: none)
\*   on        per client, the stream its subscription is on (0: not subscribed)
\*   received  per client, the records its subscription has delivered
\*   objects   FakeBackend.objects[keyStr]
\*   timeouts  the setTimeout callbacks of FakeBackend.request not yet run
\*   ops       the store operations started and not yet run by the KV engine
\*   requests, fetches, mutates, pushes
\*             calls of Backend.request, Store.fetch, Backend.mutate, Store.push
\*   arrived   data frames _backendData was called with
\*   loads, subscriptions, updates, committed
\*             FakeBackend.load calls, subscribe calls, Updater.commit calls
\*             and the commits of them that succeeded
NewDm ==
  [streams |-> <<>>, entry |-> 0,
   handle |-> [c \in Clients |-> 0], on |-> [c \in Clients |-> 0],
   received |-> [c \in Clients |-> <<>>],
   objects |-> Null, timeouts |-> 0, ops |-> <<>>,
   requests |-> 0, fetches |-> 0, mutates |-> 0, pushes |-> 0, arrived |-> 0,
   loads |-> 0, subscriptions |-> 0, updates |-> 0, committed |-> 0]

\* ---------------------------------------------------------------- FakeBackend
\* Version strings of the backend are sequences of tokens here, so that the
\* concatenation baseVersion + '.m' is computed.
BackendVersions == {<<"v1">>, <<"v2">>}
\* FakeBackend.mutate calls, at most
MaxMutates == 3

\* the mutationContext of an object that was loaded, not mutated
NoContext == [id |-> 0, fail |-> FALSE]
\* the contexts mutate is called with: {id: 1}, {id: 1, fail: true}, {id: 2}
MutateContexts ==
  {[id |-> 1, fail |-> FALSE], [id |-> 1, fail |-> TRUE], [id |-> 2, fail |-> FALSE]}

\* a FailedMutation frame
FailedMutation(key, baseVersion, context) ==
  [key |-> key, baseVersion |-> baseVersion, context |-> context,
   reason |-> "Fail for test"]

\* what a call of FakeBackend.mutate leaves: objects[keyStr] and what it put
\* on dataSubject and on failedSubject
Outcome(object, data, failed) == [object |-> object, data |-> data, failed |-> failed]

\* a slip in FakeBackend.mutate: the version is not compared
FakeMutateAnyVersion(object, key, value, baseVersion, context) ==
  IF context.fail
  THEN Outcome(object, <<>>, <<FailedMutation(key, baseVersion, context)>>)
  ELSE LET new == VersionedObject(Append(baseVersion, ".m"), value, context)
       IN Outcome(new, <<new>>, <<>>)

\* FakeBackend.mutate(key, value, baseVersion, context) where objects[keyStr]
\* is 'object' (Null: no such property)
FakeMutate(object, key, value, baseVersion, context) ==
  IF object # Null /\ object.version # baseVersion
  THEN Outcome(object, <<object>>, <<>>)
  ELSE IF context.fail
  THEN Outcome(object, <<>>, <<FailedMutation(key, baseVersion, context)>>)
  ELSE LET new == VersionedObject(Append(baseVersion, ".m"), value, context)
       IN Outcome(new, <<new>>, <<>>)

\* new FakeBackend(), with the last call of mutate and what it left
\*   object  objects[keyStr]
\*   before  objects[keyStr] when mutate was called last
\*   call    the arguments of that call (Null: none yet)
\*   data, failed   what that call put on data() and on failed()
\*   calls   how many calls of mutate there have been
NewBackend ==
  [object |-> Null, before |-> Null, call |-> Null, data |-> <<>>, failed |-> <<>>,
   calls |-> 0]

\* ---------------------------------------------------------------- objects
\* JavaScript objects have identity: the engine and the application hold
\* references, and an edit through one reference is seen through all.
MaxObjects == 3
Refs == 1..MaxObjects
\* the property foo of the test object
HeapValues == {"hello", "goodbye"}

\* no object has been created, the database is empty
\*   content    per object, its value ("": not created)
\*   used       how many objects have been created
\*   initial, mutation
\*              the objects db.records holds for the chain's initial and
\*              mutation record (0: no record)
\*   current    which of the two the ChainState names ("none": no chain)
\*   pushedValue, committedValue
\*              the values push and commit were called with
\*   frame      the data of the backend's frame, held by the backend
\*   updater    updater.value of the Updater the application holds
\*   fetched    the value of the record fetch returned last
\*   abandoned  a mutation has been abandoned
\*   lastop     the call made last
NewHeap ==
  [content |-> [r \in Refs |-> ""], used |-> 0, initial |-> 0, mutation |-> 0,
   current |-> "none", pushedValue |-> "", committedValue |-> "",
   frame |-> 0, updater |-> 0, fetched |-> 0, abandoned |-> FALSE, lastop |-> "none"]

\* InMemoryTransaction.put: this.db[store][key] = value
PutReference(h, slot, r) == [h EXCEPT ![slot] = r]

\* InMemoryIdb.get: this._clone(this.db[store][key]), handed to 'holder'
GetClone(h, slot, holder) ==
  [h EXCEPT ![holder] = h.used + 1,
            !.used = h.used + 1,
            !.content[h.used + 1] = h.content[h[slot]]]

VARIABLES
  db,        \* the KV database: db.chains and db.records
  pre,       \* the database as it was before the last operation
  last,      \* the last operation: its name, arguments and outcome
  emitted,   \* the events the last operation emitted, in order
  stream,    \* a Stream and its subscribers
  dm,        \* the Data Manager, its backend and its subscribers
  backend,   \* a FakeBackend and the last mutate call on it
  json,      \* two values and their serializations
  heap       \* the objects of the application and of the in-memory engine

vars == <<db, pre, last, emitted, stream, dm, backend, json, heap>>

\* the variables of the store
storevars == <<db, pre, last, emitted>>

\* the variables of the harnesses of FakeBackend, serializeValue and the
\* object heap
auxvars == <<backend, json, heap>>

\* what the store operations leave alone
appvars == <<stream, dm, auxvars>>

Init ==
  /\ db = [chains |-> EmptyStore, records |-> EmptyStore]
  /\ pre = db
  /\ last = [op |-> "idle"]
  /\ emitted = <<>>
  /\ stream = StreamInit
  /\ dm = NewDm
  /\ backend = NewBackend
  /\ json = NewJson
  /\ heap = NewHeap

ChainStateOf(d, k) == TxnGet(d, ChainsStore, ChainKeySerial(k))

ChainState(current, outdated) == [current |-> current, outdated |-> outdated]

\* the list 'seq' without its first element equal to 'v'
RECURSIVE RemoveFirst(_, _)
RemoveFirst(seq, v) ==
  IF seq = <<>> THEN <<>>
  ELSE IF Head(seq) = v THEN Tail(seq)
  ELSE <<Head(seq)>> \o RemoveFirst(Tail(seq), v)

InSeq(seq, v) == \E i \in 1..Len(seq) : seq[i] = v

\* ---------------------------------------------------------------- push
PushIsOutdated(state) == ~IsInitial(state.current)

PushIsResolved(state, resolves) ==
  resolves # Null /\ VersionIsEqual(state.current, resolves)

\* the ChainState push persists (steps 1 and 3)
PushState(state, base, resolves) ==
  IF state = Null THEN ChainState(PlainVersion(base, 0), <<>>)
  ELSE ChainState(PlainVersion(base, 0),
                  IF PushIsOutdated(state) /\ ~PushIsResolved(state, resolves)
                  THEN Append(state.outdated, state.current)
                  ELSE state.outdated)

\* the database after the ChainState and the pushed record are written
\* (steps 3 and 4)
PushWritten(d, k, base, value, resolves) ==
  LET state == ChainStateOf(d, k)
      d1 == TxnPut(d, ChainsStore, ChainKeySerial(k), PushState(state, base, resolves))
  IN TxnPut(d1, RecordsStore, RecordKeySerial(k, PlainVersion(base, 0)),
            Entry(value, EmptyContext))

\* a slip in push: the previous version is collected also when it is the
\* pushed version
PushCollectsPushed(state, base, resolves) ==
  /\ state # Null
  /\ (IsInitial(state.current) \/ PushIsResolved(state, resolves))

\* does push garbage-collect the previous current version (step 5)
PushCollects(state, base, resolves) ==
  /\ state # Null
  /\ ~VersionIsEqual(state.current, PlainVersion(base, 0))
  /\ (IsInitial(state.current) \/ PushIsResolved(state, resolves))

\* does push emit an OutdatedMutation (step 5)
PushEmits(state, base, resolves) ==
  /\ state # Null
  /\ ~VersionIsEqual(state.current, PlainVersion(base, 0))
  /\ ~(IsInitial(state.current) \/ PushIsResolved(state, resolves))

\* the database after the whole push
PushDb(d, k, base, value, resolves) ==
  LET state == ChainStateOf(d, k)
      d2 == PushWritten(d, k, base, value, resolves)
  IN IF PushCollects(state, base, resolves) THEN Remove(d2, k, state.current) ELSE d2

OutdatedMutation(k, current, mutation, initial) ==
  [stream |-> "outdated", key |-> k, current |-> current, mutation |-> mutation,
   initial |-> initial]

PushEvents(d, k, base, value, resolves) ==
  LET state == ChainStateOf(d, k)
      d2 == PushWritten(d, k, base, value, resolves)
  IN IF PushEmits(state, base, resolves)
     THEN <<OutdatedMutation(k,
                             Record(PlainVersion(base, 0), Entry(value, EmptyContext)),
                             FetchRecord(d2, k, state.current),
                             FetchRecord(d2, k, Initial(state.current)))>>
     ELSE <<>>

Push(k, base, value, resolves) ==
  /\ last.op = "idle"
  /\ UNCHANGED appvars
  /\ Len(PushState(ChainStateOf(db, k), base, resolves).outdated) <= MaxOutdated
  /\ db' = PushDb(db, k, base, value, resolves)
  /\ pre' = db
  /\ emitted' = PushEvents(db, k, base, value, resolves)
  /\ last' = [op |-> "push", key |-> k, base |-> base, value |-> value,
              resolves |-> resolves, result |-> "ok"]

\* ---------------------------------------------------------------- commit
PendingMutation(k, mutation) ==
  [stream |-> "pending", key |-> k, mutation |-> mutation]

\* the error values of the store
KeyNotFoundError(k) == [kind |-> "KeyNotFound", key |-> k]

OutdatedTargetVersionError(k, current, target, mutation, context) ==
  [kind |-> "OutdatedTargetVersion", key |-> k, current |-> current, target |-> target,
   mutation |-> mutation, context |-> context]

InvalidInitialTargetVersionError(k, target) ==
  [kind |-> "InvalidInitialTargetVersion", key |-> k, target |-> target]

CommitError(d, k, target) ==
  LET state == ChainStateOf(d, k)
  IN IF state = Null THEN "KeyNotFound"
     ELSE IF ~VersionIsEqual(target, state.current) THEN "OutdatedTargetVersion"
     ELSE "ok"

\* the database after a successful commit whose generated sub is 'id'
CommitDb(d, k, target, mutation, context, id) ==
  LET state == ChainStateOf(d, k)
      prev == state.current
      mutV == VersionNext(prev, id)
      d1 == TxnPut(d, ChainsStore, ChainKeySerial(k), ChainState(mutV, state.outdated))
      d2 == TxnPut(d1, RecordsStore, RecordKeySerial(k, mutV), Entry(mutation, context))
  IN IF IsInitial(prev) THEN d2
     ELSE TxnRemove(d2, RecordsStore, RecordKeySerial(k, prev))

Commit(k, target, mutation, context, id) ==
  LET err == CommitError(db, k, target)
  IN /\ last.op = "idle"
     /\ UNCHANGED appvars
     /\ pre' = db
     /\ IF err = "ok"
        THEN /\ db' = CommitDb(db, k, target, mutation, context, id)
             /\ emitted' = <<PendingMutation(k,
                   Record(VersionNext(target, id), Entry(mutation, context)))>>
             /\ last' = [op |-> "commit", key |-> k, target |-> target,
                         mutation |-> mutation, context |-> context,
                         result |-> "ok", version |-> VersionNext(target, id)]
        ELSE /\ db' = db
             /\ emitted' = <<>>
             /\ last' = [op |-> "commit", key |-> k, target |-> target,
                         mutation |-> mutation, context |-> context,
                         result |-> err,
                         error |-> IF err = "KeyNotFound" THEN KeyNotFoundError(k)
                                   ELSE OutdatedTargetVersionError(k,
                                          ChainStateOf(db, k).current, target,
                                          mutation, context)]

\* ---------------------------------------------------------------- abandon
AbandonError(d, k, target) ==
  LET state == ChainStateOf(d, k)
  IN IF state = Null THEN "KeyNotFound"
     ELSE IF IsInitial(target) THEN "InvalidInitialTargetVersion"
     ELSE "ok"

AbandonDb(d, k, target) ==
  LET state == ChainStateOf(d, k)
  IN IF VersionIsEqual(target, state.current)
     THEN TxnPut(TxnRemove(d, RecordsStore, RecordKeySerial(k, target)),
                 ChainsStore, ChainKeySerial(k),
                 ChainState(Initial(target), state.outdated))
     ELSE TxnPut(Remove(d, k, target),
                 ChainsStore, ChainKeySerial(k),
                 ChainState(state.current, RemoveFirst(state.outdated, target)))

Abandon(k, target) ==
  LET err == AbandonError(db, k, target)
  IN /\ last.op = "idle"
     /\ UNCHANGED appvars
     /\ pre' = db
     /\ emitted' = <<>>
     /\ db' = IF err = "ok" THEN AbandonDb(db, k, target) ELSE db
     /\ last' = [op |-> "abandon", key |-> k, target |-> target, result |-> err,
                 error |-> IF err = "KeyNotFound" THEN KeyNotFoundError(k)
                           ELSE IF err = "InvalidInitialTargetVersion"
                           THEN InvalidInitialTargetVersionError(k, target)
                           ELSE Null]

\* ---------------------------------------------------------------- completion
\* The observable an operation returned completes and its events have been
\* delivered: the streams are hot and keep no history.
Complete ==
  /\ last.op # "idle"
  /\ UNCHANGED appvars
  /\ db' = db
  /\ pre' = db
  /\ emitted' = <<>>
  /\ last' = [op |-> "idle"]

\* 'resolves' is absent or names a mutation (the Data Manager passes the
\* version of the mutation a data frame acknowledges)
Resolves == {v \in Versions : v.sub > 0} \cup {Null}

Next ==
  \/ \E k \in Keys, base \in Bases, value \in Values, resolves \in Resolves :
        Push(k, base, value, resolves)
  \/ \E k \in Keys, target \in Versions, mutation \in MutationValues,
        context \in Contexts, id \in RandomIds : Commit(k, target, mutation, context, id)
  \/ \E k \in Keys, target \in Versions : Abandon(k, target)
  \/ Complete

Spec == Init /\ [][Next]_vars

\* ---------------------------------------------------------------- unknown key
\* The store operations, with commit and abandon also called with a key that
\* has no chain.  What an unknown key does is independent of the values
\* pushed for the known one: one pushed value is enough here.
OneValue == {"foo"}

NextNotKey ==
  \/ \E k \in Keys, base \in Bases, value \in OneValue, resolves \in Resolves :
        Push(k, base, value, resolves)
  \/ \E k \in Keys \cup {NotKey}, target \in Versions, mutation \in MutationValues,
        context \in Contexts, id \in RandomIds : Commit(k, target, mutation, context, id)
  \/ \E k \in Keys \cup {NotKey}, target \in Versions : Abandon(k, target)
  \/ Complete

SpecNotKey == Init /\ [][NextNotKey]_vars

\* ---------------------------------------------------------------- fetch
\* the database after the KV calls of fetch(key, version?)
FetchDb(d, k, v) ==
  IF v # Null THEN TxnGetDb(d, RecordsStore, RecordKeySerial(k, v))
  ELSE LET state == TxnGet(d, ChainsStore, ChainKeySerial(k))
           d1 == TxnGetDb(d, ChainsStore, ChainKeySerial(k))
       IN IF state = Null THEN d1
          ELSE TxnGetDb(d1, RecordsStore, RecordKeySerial(k, state.current))

\* fetch(key, version?), and the same fetch once more with no operation in
\* between: 'again' keeps what the first of the two returned
FetchOp(k, v) ==
  /\ \/ last.op = "idle"
     \/ /\ last.op = "fetch"
        /\ "again" \notin DOMAIN last
        /\ last.key = k
        /\ last.version = v
  /\ UNCHANGED appvars
  /\ db' = FetchDb(db, k, v)
  /\ pre' = db
  /\ emitted' = <<>>
  /\ last' = IF last.op = "fetch"
             THEN [op |-> "fetch", key |-> k, version |-> v,
                   result |-> Fetch(db, k, v), again |-> last.result]
             ELSE [op |-> "fetch", key |-> k, version |-> v,
                   result |-> Fetch(db, k, v)]

NextFetch ==
  \/ \E k \in Keys, base \in Bases, value \in OneValue, resolves \in Resolves :
        Push(k, base, value, resolves)
  \/ \E k \in Keys, target \in Versions, mutation \in MutationValues,
        context \in Contexts, id \in RandomIds : Commit(k, target, mutation, context, id)
  \/ \E k \in Keys, target \in Versions : Abandon(k, target)
  \/ \E k \in Keys, v \in Versions \cup {Null} : FetchOp(k, v)
  \/ Complete

SpecFetch == Init /\ [][NextFetch]_vars

\* ---------------------------------------------------------------- two operations
\* Two operations initiated one after the other on one chain.  The in-memory
\* engine answers every KV call synchronously, so the second operation runs
\* when the first has finished; what the first did ('first') and the
\* database it started from ('before') are kept beside the second's outcome.
IsFirst == last.op # "idle" /\ "first" \notin DOMAIN last

PushSecond(k, base, value, resolves) ==
  /\ IsFirst
  /\ UNCHANGED appvars
  /\ k = last.key
  /\ Len(PushState(ChainStateOf(db, k), base, resolves).outdated) <= MaxOutdated
  /\ db' = PushDb(db, k, base, value, resolves)
  /\ pre' = db
  /\ emitted' = PushEvents(db, k, base, value, resolves)
  /\ last' = [op |-> "push", key |-> k, base |-> base, value |-> value,
              resolves |-> resolves, result |-> "ok", first |-> last, before |-> pre]

CommitSecond(k, target, mutation, context, id) ==
  LET err == CommitError(db, k, target)
  IN /\ IsFirst
     /\ UNCHANGED appvars
     /\ k = last.key
     /\ pre' = db
     /\ IF err = "ok"
        THEN /\ db' = CommitDb(db, k, target, mutation, context, id)
             /\ emitted' = <<PendingMutation(k,
                   Record(VersionNext(target, id), Entry(mutation, context)))>>
             /\ last' = [op |-> "commit", key |-> k, target |-> target,
                         mutation |-> mutation, context |-> context,
                         result |-> "ok", version |-> VersionNext(target, id),
                         first |-> last, before |-> pre]
        ELSE /\ db' = db
             /\ emitted' = <<>>
             /\ last' = [op |-> "commit", key |-> k, target |-> target,
                         mutation |-> mutation, context |-> context,
                         result |-> err,
                         error |-> IF err = "KeyNotFound" THEN KeyNotFoundError(k)
                                   ELSE OutdatedTargetVersionError(k,
                                          ChainStateOf(db, k).current, target,
                                          mutation, context),
                         first |-> last, before |-> pre]

AbandonSecond(k, target) ==
  LET err == AbandonError(db, k, target)
  IN /\ IsFirst
     /\ UNCHANGED appvars
     /\ k = last.key
     /\ pre' = db
     /\ emitted' = <<>>
     /\ db' = IF err = "ok" THEN AbandonDb(db, k, target) ELSE db
     /\ last' = [op |-> "abandon", key |-> k, target |-> target, result |-> err,
                 error |-> IF err = "KeyNotFound" THEN KeyNotFoundError(k)
                           ELSE IF err = "InvalidInitialTargetVersion"
                           THEN InvalidInitialTargetVersionError(k, target)
                           ELSE Null,
                 first |-> last, before |-> pre]

NextPair ==
  \/ \E k \in Keys, base \in Bases, value \in OneValue, resolves \in Resolves :
        Push(k, base, value, resolves)
  \/ \E k \in Keys, target \in Versions, mutation \in MutationValues,
        context \in Contexts, id \in RandomIds : Commit(k, target, mutation, context, id)
  \/ \E k \in Keys, target \in Versions : Abandon(k, target)
  \/ \E k \in Keys, base \in Bases, value \in OneValue, resolves \in Resolves :
        PushSecond(k, base, value, resolves)
  \/ \E k \in Keys, target \in Versions, mutation \in MutationValues,
        context \in Contexts, id \in RandomIds :
        CommitSecond(k, target, mutation, context, id)
  \/ \E k \in Keys, target \in Versions : AbandonSecond(k, target)
  \/ Complete

SpecPair == Init /\ [][NextPair]_vars

\* ---------------------------------------------------------------- Stream use
\* A Stream, its subscribers and the code that sends on it.  send iterates
\* the observers and calls each one's onNext; what a callback does before it
\* returns (subscribe, dispose a subscription, send again) happens while that
\* iteration is in progress.
Top == stream.stack[Len(stream.stack)]

\* code can run: outside every send and close, or inside the callback being
\* called
CanCall ==
  IF stream.stack # <<>> THEN Top.cb
  ELSE IF stream.closing # Null THEN stream.closing.cb
  ELSE TRUE

SetTop(t, frame) == [t EXCEPT !.stack[Len(t.stack)] = frame]

\* observable.subscribe(observer): the subscribe function of the constructor
StreamSubscribe(o) ==
  /\ CanCall
  /\ o \notin stream.used
  /\ stream' = [stream EXCEPT
        !.s.observers = Append(@, o),
        !.used = @ \cup {o},
        !.live = @ \cup {o},
        !.at[o] = Len(stream.sent),
        !.received[o] = IF stream.s.seenInitialValue
                        THEN <<stream.s.previous>> ELSE <<>>]
  /\ UNCHANGED <<storevars, dm, auxvars>>

\* subscription.dispose(): the function the subscribe function returned
StreamUnsubscribe(o) ==
  /\ CanCall
  /\ o \in stream.live
  /\ stream' = [Disconnected(stream, o) EXCEPT
        !.live = @ \ {o},
        !.zeroed = IF stream.live = {o} THEN @ + 1 ELSE @]
  /\ UNCHANGED <<storevars, dm, auxvars>>

\* Stream.send(obj), up to the forEach
StreamSend(v) ==
  /\ CanCall
  /\ Len(stream.sent) < MaxSends
  /\ Len(stream.stack) < MaxDepth
  /\ stream' = [stream EXCEPT
        !.s.observersLock = TRUE,
        !.sent = Append(@, v),
        !.stack = Append(@, [value |-> v, k |-> 1, n |-> Len(stream.s.observers),
                             cb |-> FALSE, audience |-> stream.live,
                             list |-> stream.s.observers, got |-> <<>>])]
  /\ UNCHANGED <<storevars, dm, auxvars>>

\* one step of observers.forEach(obs => obs.onNext(obj)): an index that is no
\* longer in the array is passed over, and the observer of a disposed
\* subscription, or one that has completed, ignores onNext
StreamDeliver ==
  /\ stream.stack # <<>>
  /\ ~Top.cb
  /\ Top.k <= Top.n
  /\ IF /\ Top.k <= Len(stream.s.observers)
        /\ stream.s.observers[Top.k] \in stream.live \ stream.completed
     THEN LET o == stream.s.observers[Top.k]
          IN stream' = [SetTop(stream, [Top EXCEPT !.cb = TRUE, !.got = Append(@, o)])
                          EXCEPT !.received[o] = Append(@, Top.value)]
     ELSE stream' = SetTop(stream, [Top EXCEPT !.k = @ + 1])
  /\ UNCHANGED <<storevars, dm, auxvars>>

\* the callback returns and forEach moves on
StreamReturn ==
  /\ stream.stack # <<>>
  /\ Top.cb
  /\ stream' = SetTop(stream, [Top EXCEPT !.cb = FALSE, !.k = @ + 1])
  /\ UNCHANGED <<storevars, dm, auxvars>>

\* Stream.send(obj), after the forEach
StreamSendEnd ==
  /\ stream.stack # <<>>
  /\ ~Top.cb
  /\ Top.k > Top.n
  /\ stream' = [UnlockObservers(stream) EXCEPT
        !.s.previous = Top.value,
        !.s.seenInitialValue = TRUE,
        !.stack = SubSeq(stream.stack, 1, Len(stream.stack) - 1),
        !.finished = Top]
  /\ UNCHANGED <<storevars, dm, auxvars>>

NextStream ==
  \/ \E o \in Observers : StreamSubscribe(o)
  \/ \E o \in Observers : StreamUnsubscribe(o)
  \/ \E v \in Sent : StreamSend(v)
  \/ StreamDeliver
  \/ StreamReturn
  \/ StreamSendEnd

SpecStream == Init /\ [][NextStream]_vars

\* ---------------------------------------------------------------- Stream close
\* Stream.close(), up to the forEach: no lock is taken
StreamClose ==
  /\ stream.stack = <<>>
  /\ stream.closing = Null
  /\ stream.closes < MaxCloses
  /\ stream' = [stream EXCEPT
        !.closes = @ + 1,
        !.closing = [k |-> 1, n |-> Len(stream.s.observers), cb |-> FALSE,
                     audience |-> stream.live, got |-> {}]]
  /\ UNCHANGED <<storevars, dm, auxvars>>

\* one step of observers.forEach(obs => obs.onCompleted())
StreamComplete ==
  /\ stream.closing # Null
  /\ stream.stack = <<>>
  /\ ~stream.closing.cb
  /\ stream.closing.k <= stream.closing.n
  /\ IF /\ stream.closing.k <= Len(stream.s.observers)
        /\ stream.s.observers[stream.closing.k] \in stream.live \ stream.completed
     THEN LET o == stream.s.observers[stream.closing.k]
          IN stream' = [stream EXCEPT !.closing.cb = TRUE,
                                      !.closing.got = @ \cup {o},
                                      !.completed = @ \cup {o}]
     ELSE stream' = [stream EXCEPT !.closing.k = @ + 1]
  /\ UNCHANGED <<storevars, dm, auxvars>>

\* the onCompleted callback returns and forEach moves on
StreamCompleteReturn ==
  /\ stream.closing # Null
  /\ stream.stack = <<>>
  /\ stream.closing.cb
  /\ stream' = [stream EXCEPT !.closing.cb = FALSE, !.closing.k = @ + 1]
  /\ UNCHANGED <<storevars, dm, auxvars>>

\* Stream.close() returns
StreamCloseEnd ==
  /\ stream.closing # Null
  /\ ~stream.closing.cb
  /\ stream.closing.k > stream.closing.n
  /\ stream' = [stream EXCEPT !.closed = stream.closing, !.closing = Null]
  /\ UNCHANGED <<storevars, dm, auxvars>>

NextClose ==
  \/ \E o \in Observers : StreamSubscribe(o)
  \/ \E o \in Observers : StreamUnsubscribe(o)
  \/ \E v \in Sent : StreamSend(v)
  \/ StreamDeliver
  \/ StreamReturn
  \/ StreamSendEnd
  \/ StreamClose
  \/ StreamComplete
  \/ StreamCompleteReturn
  \/ StreamCloseEnd

SpecClose == Init /\ [][NextClose]_vars

\* ---------------------------------------------------------------- Data Manager use
\* Stream.send when no subscriber calls back into the Stream from onNext
SendTo(t, v) ==
  LET t1 == UnlockObservers([t EXCEPT !.s.observersLock = TRUE])
  IN [t1 EXCEPT !.s.previous = v, !.s.seenInitialValue = TRUE]

\* TacticalDataManager._pushUpdate
PushUpdate(d, record) ==
  IF d.entry = 0 THEN d
  ELSE [d EXCEPT
         !.streams[d.entry] = SendTo(@, record),
         !.received = [c \in Clients |->
                         IF InSeq(d.streams[d.entry].s.observers, c)
                         THEN Append(d.received[c], record)
                         ELSE d.received[c]]]

\* TacticalDataManager._backendData
BackendData(d, f) ==
  PushUpdate([d EXCEPT !.ops = Append(@, [op |-> "push", frame |-> f]),
                       !.pushes = @ + 1,
                       !.arrived = @ + 1],
             FrameRecord(f))

\* a slip in TacticalDataManager._open: the backend and the store are asked
\* on every call
OpenAlways(d, c) ==
  LET d1 == IF d.entry = 0
            THEN [d EXCEPT !.streams = Append(@, NewDmStream),
                           !.entry = Len(d.streams) + 1]
            ELSE d
  IN [d1 EXCEPT !.requests = @ + 1,
                !.timeouts = IF d.objects # Null THEN @ + 1 ELSE @,
                !.fetches = @ + 1,
                !.ops = Append(@, [op |-> "fetch"]),
                !.handle[c] = d1.entry]

\* TacticalDataManager._open (with FakeBackend.request and _requestFromStore),
\* its observable handed to client 'c'
Open(d, c) ==
  IF d.entry = 0
  THEN [d EXCEPT !.streams = Append(@, NewDmStream),
                 !.entry = Len(d.streams) + 1,
                 !.requests = @ + 1,
                 !.timeouts = IF d.objects # Null THEN @ + 1 ELSE @,
                 !.fetches = @ + 1,
                 !.ops = Append(@, [op |-> "fetch"]),
                 !.handle[c] = Len(d.streams) + 1]
  ELSE [d EXCEPT !.handle[c] = d.entry]

\* new TacticalUpdater(record.value, key, this, record.version)
TacticalUpdater(record) == [value |-> record.value, version |-> record.version]

\* request(key) or beginUpdate(key) by client 'c'
DmRequest(c) ==
  /\ dm.entry # 0 \/ (Len(dm.streams) < MaxStreams /\ Len(dm.ops) < MaxOps)
  /\ dm' = Open(dm, c)
  /\ UNCHANGED <<storevars, stream, auxvars>>

\* client 'c' subscribes to the observable it holds
DmSubscribe(c) ==
  /\ dm.handle[c] # 0
  /\ dm.on[c] = 0
  /\ dm.subscriptions < MaxSubscriptions
  /\ LET i == dm.handle[c]
         t == dm.streams[i]
     IN dm' = [dm EXCEPT
                 !.streams[i].s.observers = Append(@, c),
                 !.streams[i].subscribed = TRUE,
                 !.on[c] = i,
                 !.subscriptions = @ + 1,
                 !.received[c] = IF t.s.seenInitialValue
                                 THEN <<t.s.previous>> ELSE <<>>]
  /\ UNCHANGED <<storevars, stream, auxvars>>

\* client 'c' disposes its subscription
DmDispose(c) ==
  /\ dm.on[c] # 0
  /\ LET i == dm.on[c]
         t == Disconnected(dm.streams[i], c)
     IN dm' = [dm EXCEPT
                 !.streams[i] = t,
                 !.on[c] = 0,
                 !.entry = IF t.disconnects > dm.streams[i].disconnects THEN 0 ELSE @]
  /\ UNCHANGED <<storevars, stream, auxvars>>

\* FakeBackend.load(object, broadcast)
BackendLoad(f, broadcast) ==
  /\ dm.loads < MaxFrames
  /\ broadcast => Len(dm.ops) < MaxOps
  /\ LET d1 == [dm EXCEPT !.objects = f, !.loads = @ + 1]
     IN dm' = IF broadcast THEN BackendData(d1, f) ELSE d1
  /\ UNCHANGED <<storevars, stream, auxvars>>

\* the setTimeout callback of FakeBackend.request
BackendTimeout ==
  /\ dm.timeouts > 0
  /\ Len(dm.ops) < MaxOps
  /\ dm' = BackendData([dm EXCEPT !.timeouts = @ - 1], dm.objects)
  /\ UNCHANGED <<storevars, stream, auxvars>>

\* Updater.commit() on the Updater client 'c' got last from its subscription,
\* its value edited to 'v'
DmCommit(c, v) ==
  /\ dm.received[c] # <<>>
  /\ dm.updates < MaxCommits
  /\ Len(dm.ops) < MaxOps
  /\ LET record == dm.received[c][Len(dm.received[c])]
         u == [TacticalUpdater(record) EXCEPT !.value = v]
     IN dm' = [dm EXCEPT
                 !.updates = @ + 1,
                 !.ops = Append(@, [op |-> "commit", target |-> u.version,
                                    value |-> u.value])]
  /\ UNCHANGED <<storevars, stream, auxvars>>

\* the KV engine runs the store operation started first: a push
DmStorePush ==
  /\ dm.ops # <<>>
  /\ Head(dm.ops).op = "push"
  /\ LET f == Head(dm.ops).frame
     IN /\ db' = PushDb(db, DmKey, f.version, f.data, Null)
        /\ emitted' = PushEvents(db, DmKey, f.version, f.data, Null)
  /\ dm' = [dm EXCEPT !.ops = Tail(@)]
  /\ UNCHANGED <<pre, last, stream, auxvars>>

\* ... a fetch, and the callback of _requestFromStore
DmStoreFetch ==
  /\ dm.ops # <<>>
  /\ Head(dm.ops).op = "fetch"
  /\ LET record == Fetch(db, DmKey, Null)
         d1 == [dm EXCEPT !.ops = Tail(@)]
     IN dm' = IF record # Null THEN PushUpdate(d1, record) ELSE d1
  /\ db' = FetchDb(db, DmKey, Null)
  /\ emitted' = <<>>
  /\ UNCHANGED <<pre, last, stream, auxvars>>

\* ... a commit, whose generated sub is 'id'
DmStoreCommit(id) ==
  /\ dm.ops # <<>>
  /\ Head(dm.ops).op = "commit"
  /\ LET o == Head(dm.ops)
     IN IF CommitError(db, DmKey, o.target) = "ok"
        THEN /\ db' = CommitDb(db, DmKey, o.target, o.value, EmptyContext, id)
             /\ emitted' = <<PendingMutation(DmKey,
                   Record(VersionNext(o.target, id), Entry(o.value, EmptyContext)))>>
             /\ dm' = [dm EXCEPT !.ops = Tail(@), !.committed = @ + 1]
        ELSE /\ db' = db
             /\ emitted' = <<>>
             /\ dm' = [dm EXCEPT !.ops = Tail(@)]
  /\ UNCHANGED <<pre, last, stream, auxvars>>

\* the version the backend has while the clients subscribe and dispose
OneBase == {"b1"}

\* the clients subscribe and dispose while the backend sends data frames
NextDm ==
  \/ \E c \in Clients : DmRequest(c)
  \/ \E c \in Clients : DmSubscribe(c)
  \/ \E c \in Clients : DmDispose(c)
  \/ \E base \in OneBase, value \in OneValue, broadcast \in BOOLEAN :
        BackendLoad(VersionedObject(base, value, "null"), broadcast)
  \/ BackendTimeout
  \/ DmStorePush
  \/ DmStoreFetch

SpecDm == Init /\ [][NextDm]_vars

\* one client takes Updaters and commits them
OneClient == {"c1"}

NextUpdate ==
  \/ \E c \in OneClient : DmRequest(c)
  \/ \E c \in OneClient : DmSubscribe(c)
  \/ \E c \in OneClient : DmDispose(c)
  \/ \E base \in Bases, value \in OneValue, context \in MutationContexts,
        broadcast \in BOOLEAN :
        BackendLoad(VersionedObject(base, value, context), broadcast)
  \/ BackendTimeout
  \/ \E c \in OneClient, v \in MutationValues : DmCommit(c, v)
  \/ DmStorePush
  \/ DmStoreFetch
  \/ \E id \in RandomIds : DmStoreCommit(id)

SpecUpdate == Init /\ [][NextUpdate]_vars

\* ---------------------------------------------------------------- FakeBackend use
\* FakeBackend.load(object, false); what the last mutate left is forgotten
FakeLoad(version, value) ==
  /\ backend.object = Null
  /\ backend' = [backend EXCEPT !.object = VersionedObject(version, value, NoContext),
                                !.before = Null, !.call = Null,
                                !.data = <<>>, !.failed = <<>>]
  /\ UNCHANGED <<storevars, stream, dm, json, heap>>

\* a call of FakeBackend.mutate
FakeMutateCall(value, baseVersion, context) ==
  /\ backend.calls < MaxMutates
  /\ LET out == FakeMutate(backend.object, DmKey, value, baseVersion, context)
     IN backend' = [object |-> out.object, before |-> backend.object,
                    call |-> [key |-> DmKey, value |-> value,
                              baseVersion |-> baseVersion, context |-> context],
                    data |-> out.data, failed |-> out.failed,
                    calls |-> backend.calls + 1]
  /\ UNCHANGED <<storevars, stream, dm, json, heap>>

\* the base versions a client can hold: those loaded and the stored object's
KnownVersions ==
  BackendVersions \cup (IF backend.object = Null THEN {} ELSE {backend.object.version})

NextBackend ==
  \/ \E version \in BackendVersions, value \in OneValue : FakeLoad(version, value)
  \/ \E value \in MutationValues, baseVersion \in KnownVersions,
        context \in MutateContexts : FakeMutateCall(value, baseVersion, context)

SpecBackend == Init /\ [][NextBackend]_vars

\* ---------------------------------------------------------------- serializeValue use
\* two values to serialize
InitJson ==
  /\ db = [chains |-> EmptyStore, records |-> EmptyStore]
  /\ pre = db
  /\ last = [op |-> "idle"]
  /\ emitted = <<>>
  /\ stream = StreamInit
  /\ dm = NewDm
  /\ backend = NewBackend
  /\ heap = NewHeap
  /\ \E x \in JsonValues, y \in JsonValues :
       json = [done |-> FALSE, x |-> x, y |-> y, sx |-> <<>>, sy |-> <<>>]

\* serializeValue(x) and serializeValue(y)
Serialize ==
  /\ ~json.done
  /\ json' = [json EXCEPT !.done = TRUE,
                          !.sx = SerializeValue(json.x),
                          !.sy = SerializeValue(json.y)]
  /\ UNCHANGED <<storevars, stream, dm, backend, heap>>

NextJson == Serialize

SpecJson == InitJson /\ [][NextJson]_vars

\* ---------------------------------------------------------------- several keys
\* The store operations on several keys, a string key among them that reads
\* like the serialization of an object key.  One base and one pushed value
\* are enough for what a key shares with another.
ManyKeys == {"k1", "str", "obj"}
OneBaseVersions == {v \in Versions : v.base = "b1"}
OneBaseResolves == {v \in OneBaseVersions : v.sub > 0} \cup {Null}

NextKeys ==
  \/ \E k \in ManyKeys, value \in OneValue, resolves \in OneBaseResolves :
        Push(k, "b1", value, resolves)
  \/ \E k \in ManyKeys, target \in OneBaseVersions, mutation \in MutationValues,
        context \in Contexts, id \in RandomIds : Commit(k, target, mutation, context, id)
  \/ \E k \in ManyKeys, target \in OneBaseVersions : Abandon(k, target)
  \/ Complete

SpecKeys == Init /\ [][NextKeys]_vars

\* ---------------------------------------------------------------- objects use
\* A data frame arrives: _backendData pushes data.data and sends a Record of
\* the same data.data on the stream; with a subscriber of beginUpdate the
\* Updater's value is that object.
HeapFrame(subscribed) ==
  /\ heap.current = "none"
  /\ heap.used < MaxObjects
  /\ LET r == heap.used + 1
         h1 == [heap EXCEPT !.used = r, !.content[r] = "hello", !.frame = r,
                            !.pushedValue = "hello", !.current = "initial",
                            !.lastop = "frame",
                            !.updater = IF subscribed THEN r ELSE @]
     IN heap' = PutReference(h1, "initial", r)
  /\ UNCHANGED <<storevars, stream, dm, backend, json>>

\* fetch(key): the current record, read with the engine's get; as the answer
\* of _requestFromStore it makes the Updater of a beginUpdate subscriber
HeapFetch(subscribed) ==
  /\ heap.current # "none"
  /\ heap.used < MaxObjects
  /\ LET h1 == GetClone(heap, heap.current, "fetched")
     IN heap' = [h1 EXCEPT !.lastop = "fetch",
                           !.updater = IF subscribed THEN h1.fetched ELSE @]
  /\ UNCHANGED <<storevars, stream, dm, backend, json>>

\* the application edits an object it holds: obj['foo'] = v
HeapEdit(r, v) ==
  /\ r # 0
  /\ r \in {heap.frame, heap.updater, heap.fetched}
  /\ heap.content[r] # v
  /\ heap' = [heap EXCEPT !.content[r] = v, !.lastop = "edit"]
  /\ UNCHANGED <<storevars, stream, dm, backend, json>>

\* updater.commit(): Store.commit with updater.value as the mutation
HeapCommit ==
  /\ heap.updater # 0
  /\ heap.current # "none"
  /\ LET h1 == [heap EXCEPT !.committedValue = heap.content[heap.updater],
                            !.current = "mutation", !.lastop = "commit"]
     IN heap' = PutReference(h1, "mutation", heap.updater)
  /\ UNCHANGED <<storevars, stream, dm, backend, json>>

\* abandon of the current mutation: its record is removed, the initial
\* record is the head again
HeapAbandon ==
  /\ heap.current = "mutation"
  /\ heap' = [heap EXCEPT !.mutation = 0, !.current = "initial",
                          !.abandoned = TRUE, !.lastop = "abandon"]
  /\ UNCHANGED <<storevars, stream, dm, backend, json>>

NextHeap ==
  \/ \E subscribed \in BOOLEAN : HeapFrame(subscribed)
  \/ \E subscribed \in BOOLEAN : HeapFetch(subscribed)
  \/ \E r \in Refs, v \in HeapValues : HeapEdit(r, v)
  \/ HeapCommit
  \/ HeapAbandon

SpecHeap == Init /\ [][NextHeap]_vars

\* ================================================================ claims
\* What the claims read: the stored ChainState and records of a database.
HasChain(d, k) == ChainKeySerial(k) \in DOMAIN d.chains
StateIn(d, k) == d.chains[ChainKeySerial(k)]
HasRecord(d, k, v) == RecordKeySerial(k, v) \in DOMAIN d.records
RecordIn(d, k, v) ==
  IF HasRecord(d, k, v)
  THEN [version |-> v, value |-> d.records[RecordKeySerial(k, v)].value,
        context |-> d.records[RecordKeySerial(k, v)].context]
  ELSE Null
OutdatedSet(d, k) == {StateIn(d, k).outdated[i] : i \in 1..Len(StateIn(d, k).outdated)}
MutationRecords(d, k) == {v \in Versions : v.sub > 0 /\ HasRecord(d, k, v)}
PushedRecord == [version |-> PlainVersion(last.base, 0), value |-> last.value,
                 context |-> EmptyContext]
CommitOk == last.op = "commit" /\ last.result = "ok"
PushOnPending ==
  last.op = "push" /\ HasChain(pre, last.key) /\ StateIn(pre, last.key).current.sub > 0
PushOnInitial ==
  last.op = "push" /\ HasChain(pre, last.key) /\ StateIn(pre, last.key).current.sub = 0

\* C1: in every reachable state, a chain that has a ChainState has a record
\* at (chain, ChainState.current).
C1_CurrentRecordExists ==
  \A k \in Keys : HasChain(db, k) => HasRecord(db, k, StateIn(db, k).current)

\* C2: after each operation, if ChainState.current has sub > 0 then the records
\* at (chain, current) and at (chain, current.initial) are both present.
C2_PendingAndInitialExist ==
  \A k \in Keys :
    (HasChain(db, k) /\ StateIn(db, k).current.sub > 0) =>
      /\ HasRecord(db, k, StateIn(db, k).current)
      /\ HasRecord(db, k, Initial(StateIn(db, k).current))

\* C3: in every reachable state, for every version v in ChainState.outdated the
\* records at (chain, v) and at (chain, v.initial) both exist.
C3_OutdatedRecordsExist ==
  \A k \in Keys :
    HasChain(db, k) =>
      \A v \in OutdatedSet(db, k) : HasRecord(db, k, v) /\ HasRecord(db, k, Initial(v))

\* C4: in every reachable state ChainState.current is not an element of
\* ChainState.outdated, whatever sub values the generator returns.
C4_CurrentNotOutdated ==
  \A k \in Keys : HasChain(db, k) => StateIn(db, k).current \notin OutdatedSet(db, k)

C6_OutdatedMutationEmitted ==
  (PushOnPending /\ last.resolves = Null) =>
    emitted = << [stream |-> "outdated", key |-> last.key,
                  current |-> PushedRecord,
                  mutation |-> RecordIn(pre, last.key, StateIn(pre, last.key).current),
                  initial |-> RecordIn(pre, last.key,
                                       Initial(StateIn(pre, last.key).current))] >>

\* C7: an unresolved push onto a pending chain succeeds, persists current =
\* (base,0) and the old outdated list with the previous current appended, and
\* keeps the records of the superseded mutation and of its initial version.
C7_UnresolvedPushRetains ==
  (PushOnPending /\ last.resolves # StateIn(pre, last.key).current) =>
    LET prev == StateIn(pre, last.key).current
    IN /\ last.result = "ok"
       /\ StateIn(db, last.key) =
            [current |-> PlainVersion(last.base, 0),
             outdated |-> Append(StateIn(pre, last.key).outdated, prev)]
       /\ (HasRecord(pre, last.key, prev) =>
             RecordIn(db, last.key, prev) = RecordIn(pre, last.key, prev))
       /\ (HasRecord(pre, last.key, Initial(prev)) =>
             HasRecord(db, last.key, Initial(prev)))

\* a push whose resolves names another mutation than the pending one has put
\* the pending mutation behind an older outdated one; both its records exist
C7_Witness ==
  /\ PushOnPending
  /\ last.resolves # Null
  /\ last.resolves # StateIn(pre, last.key).current
  /\ Len(StateIn(pre, last.key).outdated) = 1
  /\ Len(StateIn(db, last.key).outdated) = 2
  /\ HasRecord(db, last.key, StateIn(pre, last.key).current)
  /\ HasRecord(db, last.key, Initial(StateIn(pre, last.key).current))

\* C8: a push onto a pending chain with resolves equal to the current version
\* emits nothing, leaves the outdated list unchanged, makes fetch(key) return
\* the pushed value, and fetch of the resolved version and of its initial
\* version return null afterwards.
C8_ResolvedPushCollects ==
  (PushOnPending /\ last.resolves = StateIn(pre, last.key).current) =>
    LET prev == StateIn(pre, last.key).current
    IN /\ emitted = <<>>
       /\ StateIn(db, last.key).outdated = StateIn(pre, last.key).outdated
       /\ Fetch(db, last.key, Null) = PushedRecord
       /\ Fetch(db, last.key, prev) = Null
       /\ Fetch(db, last.key, Initial(prev)) = Null

\* C9: a push with a new base onto a chain whose current version is initial
\* makes the pushed record current, removes the previous current record, emits
\* no event and leaves the outdated list unchanged.
C9_PushReplacesInitial ==
  (PushOnInitial /\ StateIn(pre, last.key).current.base # last.base) =>
    LET prev == StateIn(pre, last.key).current
    IN /\ StateIn(db, last.key).current = PlainVersion(last.base, 0)
       /\ RecordIn(db, last.key, PlainVersion(last.base, 0)) = PushedRecord
       /\ RecordIn(db, last.key, prev) = Null
       /\ emitted = <<>>
       /\ StateIn(db, last.key).outdated = StateIn(pre, last.key).outdated

\* a push with another base has replaced a stored initial record
C9_Witness ==
  /\ PushOnInitial
  /\ StateIn(pre, last.key).current.base # last.base
  /\ HasRecord(pre, last.key, StateIn(pre, last.key).current)
  /\ ~HasRecord(db, last.key, StateIn(pre, last.key).current)
  /\ HasRecord(db, last.key, PlainVersion(last.base, 0))

\* C10: commit with a target other than the chain's current version fails with
\* OutdatedTargetVersion carrying key, current, target, mutation and context;
\* ChainState and records are unchanged and no PendingMutation is emitted.
C10_OutdatedTargetVersion ==
  (last.op = "commit" /\ HasChain(pre, last.key)
     /\ last.target # StateIn(pre, last.key).current) =>
    /\ last.result = "OutdatedTargetVersion"
    /\ last.error = [kind |-> "OutdatedTargetVersion", key |-> last.key,
                      current |-> StateIn(pre, last.key).current,
                      target |-> last.target, mutation |-> last.mutation,
                      context |-> last.context]
    /\ db = pre
    /\ emitted = <<>>

\* a commit against the initial version of the current pending mutation has
\* been rejected
C10_Witness ==
  /\ last.op = "commit"
  /\ last.result = "OutdatedTargetVersion"
  /\ StateIn(pre, last.key).current.sub > 0
  /\ last.target = Initial(StateIn(pre, last.key).current)
  /\ db = pre

\* C11: abandon with a target whose sub is 0 on an existing chain fails with
\* InvalidInitialTargetVersion carrying key and target, whether or not the
\* target is the current version; ChainState and every record are unchanged.
C11_InvalidInitialTargetVersion ==
  (last.op = "abandon" /\ HasChain(pre, last.key) /\ last.target.sub = 0) =>
    /\ last.result = "InvalidInitialTargetVersion"
    /\ last.error = [kind |-> "InvalidInitialTargetVersion", key |-> last.key,
                      target |-> last.target]
    /\ db = pre
    /\ emitted = <<>>

\* abandon of the initial version under the pending current mutation, a
\* version that has a record and is not current, has been rejected
C11_Witness ==
  /\ last.op = "abandon"
  /\ last.result = "InvalidInitialTargetVersion"
  /\ StateIn(pre, last.key).current.sub > 0
  /\ last.target = Initial(StateIn(pre, last.key).current)
  /\ HasRecord(db, last.key, last.target)

\* C12: commit and abandon on a key that has no ChainState fail with KeyNotFound
\* carrying that key; they create no ChainState and no record, emit no event
\* and leave every other chain unchanged.
C12_KeyNotFound ==
  ((last.op = "commit" \/ last.op = "abandon") /\ ~HasChain(pre, last.key)) =>
    /\ last.result = "KeyNotFound"
    /\ last.error = [kind |-> "KeyNotFound", key |-> last.key]
    /\ db = pre
    /\ emitted = <<>>

\* abandon with the unknown key, naming the pending mutation of another chain,
\* has been rejected and that chain still has its mutation
C12_Witness ==
  /\ last.op = "abandon"
  /\ last.key = NotKey
  /\ last.result = "KeyNotFound"
  /\ \E k \in Keys :
        /\ HasChain(db, k)
        /\ StateIn(db, k).current = last.target
        /\ last.target.sub > 0
        /\ HasRecord(db, k, last.target)

\* the second of two operations has run
IsSecond == last.op # "idle" /\ "first" \in DOMAIN last

\* C13: from a chain state whose current version is an initial version (B,0),
\* a successful commit followed by abandon of the resulting current version
\* restores ChainState and the record store to exactly what they were before
\* the commit.
C13_AbandonInvertsCommit ==
  (/\ IsSecond
   /\ last.op = "abandon"
   /\ last.first.op = "commit"
   /\ last.first.result = "ok"
   /\ last.first.target.sub = 0
   /\ last.target = last.first.version) =>
    /\ last.result = "ok"
    /\ db = last.before

\* C14: abandon(v) for a version v of the outdated list removes exactly that
\* entry, keeping the order of the others, removes the records at (chain, v)
\* and (chain, v.initial), and leaves current and the current record
\* unchanged, so fetch(key) returns the same record before and after.
C14_AbandonOutdated ==
  (/\ last.op = "abandon"
   /\ HasChain(pre, last.key)
   /\ last.target.sub > 0
   /\ last.target # StateIn(pre, last.key).current
   /\ last.target \in OutdatedSet(pre, last.key)) =>
    /\ last.result = "ok"
    /\ StateIn(db, last.key).outdated =
         RemoveFirst(StateIn(pre, last.key).outdated, last.target)
    /\ ~HasRecord(db, last.key, last.target)
    /\ ~HasRecord(db, last.key, Initial(last.target))
    /\ StateIn(db, last.key).current = StateIn(pre, last.key).current
    /\ Fetch(db, last.key, Null) = Fetch(pre, last.key, Null)

\* C15: fetch(key) without a version returns the most recently pushed or
\* committed record: after a successful push the version (base,0) with the
\* pushed value and context {}, after a successful commit the mutation with
\* the target's base, sub > 0 and the committed value and context; for a key
\* without chain, and for fetch(key, version) without such a record, null.
C15_FetchReturnsLatest ==
  /\ (last.op = "push" /\ last.result = "ok") =>
        Fetch(db, last.key, Null) = PushedRecord
  /\ CommitOk =>
        /\ last.version.base = last.target.base
        /\ last.version.sub > 0
        /\ Fetch(db, last.key, Null) =
             [version |-> last.version, value |-> last.mutation,
              context |-> last.context]
  /\ \A k \in Keys \cup {NotKey} :
        /\ ~HasChain(db, k) => Fetch(db, k, Null) = Null
        /\ \A v \in Versions : ~HasRecord(db, k, v) => Fetch(db, k, v) = Null

InvariantsHold(d) ==
  \A k \in Keys :
    HasChain(d, k) =>
      /\ HasRecord(d, k, StateIn(d, k).current)
      /\ (StateIn(d, k).current.sub > 0 =>
            HasRecord(d, k, Initial(StateIn(d, k).current)))
      /\ \A v \in OutdatedSet(d, k) : HasRecord(d, k, v) /\ HasRecord(d, k, Initial(v))
      /\ StateIn(d, k).current \notin OutdatedSet(d, k)

\* the database an operation, as recorded in 'last', leaves when it runs on d
RunOn(d, o) ==
  IF o.op = "push" THEN PushDb(d, o.key, o.base, o.value, o.resolves)
  ELSE IF o.op = "commit"
  THEN IF o.result = "ok" /\ CommitError(d, o.key, o.target) = "ok"
       THEN CommitDb(d, o.key, o.target, o.mutation, o.context, o.version.sub)
       ELSE d
  ELSE IF AbandonError(d, o.key, o.target) = "ok" THEN AbandonDb(d, o.key, o.target)
  ELSE d

\* C18: two operations initiated together on one chain leave the ChainState
\* and records that running them one after the other in initiation order
\* leaves, and invariants 1-4 hold in the result.
C18_SerializedInOrder ==
  (IsSecond /\ InvariantsHold(last.before)) =>
    /\ db = RunOn(RunOn(last.before, last.first), last)
    /\ InvariantsHold(db)

\* C19: of two commits naming the same target, the current version of the
\* chain, initiated together, exactly one succeeds and the other is rejected
\* as targeting a non-current version; two pending-mutation records never
\* both remain.
C19_OneCommitWins ==
  (/\ IsSecond
   /\ last.op = "commit"
   /\ last.first.op = "commit"
   /\ last.target = last.first.target
   /\ HasChain(last.before, last.key)
   /\ last.target = StateIn(last.before, last.key).current) =>
    /\ \/ last.first.result = "ok" /\ last.result = "OutdatedTargetVersion"
       \/ last.first.result = "OutdatedTargetVersion" /\ last.result = "ok"
    /\ Cardinality(MutationRecords(db, last.key) \ OutdatedSet(db, last.key)) <= 1
    /\ Cardinality(MutationRecords(pre, last.key) \ OutdatedSet(pre, last.key)) <= 1

\* C20: when a subscriber observes a PendingMutation or an OutdatedMutation the
\* store already reflects the whole operation: fetch(key) from the callback
\* returns the new current record, the mutation for a pending event and the
\* pushed record for an outdated one.
C20_EventsAfterTransaction ==
  \A i \in 1..Len(emitted) :
    /\ db = RunOn(pre, last)
    /\ (emitted[i].stream = "pending" =>
          Fetch(db, emitted[i].key, Null) = emitted[i].mutation)
    /\ (emitted[i].stream = "outdated" =>
          Fetch(db, emitted[i].key, Null) = emitted[i].current)

Expected(o) ==
  (IF stream.at[o] >= 1 THEN <<stream.sent[stream.at[o]]>> ELSE <<>>)
    \o SubSeq(stream.sent, stream.at[o] + 1, Len(stream.sent))

\* C22: a subscriber that subscribes after at least one send receives the most
\* recently sent value during subscribe and then every later value in send
\* order; one that subscribes before any send receives nothing until the
\* first send.
C22_ReplayLastThenAll ==
  stream.stack = <<>> =>
    \A o \in stream.live : stream.received[o] = Expected(o)

\* how many times 'o' occurs in 'seq'
Occurrences(seq, o) == Cardinality({i \in 1..Len(seq) : seq[i] = o})

\* C24: while a send iterates over the subscriber list no subscriber is removed
\* from the list (removals asked for during the iteration, also by a
\* subscriber calling send again from its callback, wait for its end), and
\* every subscriber subscribed when send(v) started receives v exactly once.
C24_ReentrantSafeDispatch ==
  /\ \A i \in 1..Len(stream.stack) :
       \A j \in 1..Len(stream.stack[i].list) :
         InSeq(stream.s.observers, stream.stack[i].list[j])
  /\ stream.finished # Null =>
       \A o \in stream.finished.audience \cap stream.live :
         Occurrences(stream.finished.got, o) = 1

\* the clients whose subscription is on stream 'i' of the Data Manager
SubscribersOf(i) == {c \in Clients : dm.on[c] = i}

\* C23: the Data Manager's entry for the key exists exactly while its stream
\* has at least one subscriber, once it has had its first: it is removed
\* when and only when the subscriber count goes from one to zero, never
\* while another subscriber is still subscribed.
C23_EntryWhileSubscribed ==
  \A i \in 1..Len(dm.streams) :
    /\ SubscribersOf(i) # {} => dm.entry = i
    /\ (dm.entry = i /\ dm.streams[i].subscribed) => SubscribersOf(i) # {}

\* C25: the Data Manager sends a backend request(key) and a Store.fetch(key)
\* exactly once per creation of the per-key stream: a request or beginUpdate
\* while the entry exists creates nothing and asks nothing, and one made after
\* the entry was torn down creates a new stream and asks again.
C25_OneRequestPerStream ==
  [][/\ dm'.requests - dm.requests = Len(dm'.streams) - Len(dm.streams)
     /\ dm'.fetches - dm.fetches = Len(dm'.streams) - Len(dm.streams)
     /\ dm.entry # 0 => Len(dm'.streams) = Len(dm.streams)
     /\ (dm.entry = 0 /\ dm'.handle # dm.handle) =>
           /\ Len(dm'.streams) = Len(dm.streams) + 1
           /\ dm'.entry = Len(dm'.streams)]_vars

\* a second stream was created after the first was torn down, and both
\* clients have asked for the key while its entry existed
C25_Witness ==
  /\ Len(dm.streams) = 2
  /\ dm.requests = 2
  /\ dm.fetches = 2
  /\ \A c \in Clients : dm.handle[c] = 2

\* the record a client's subscription delivered last
LastReceived(d, c) == d.received[c][Len(d.received[c])]

\* C26: every backend data frame is stored with Store.push whether or not a
\* stream for its key is active, and creates no stream entry; a frame's record
\* is sent on the active stream only after that push has committed, so that
\* the store a subscriber sees on receiving it holds a current record with
\* the frame's version and data.
C26_FrameStoredThenSent ==
  [][/\ dm'.arrived = dm.arrived + 1 =>
          /\ dm'.pushes = dm.pushes + 1
          /\ Len(dm'.streams) = Len(dm.streams)
          /\ dm'.entry = dm.entry
     /\ \A c \in Clients :
          (/\ dm'.subscriptions = dm.subscriptions
           /\ Len(dm'.received[c]) = Len(dm.received[c]) + 1
           /\ LastReceived(dm', c).context = Undefined) =>
            LET record == Fetch(db', DmKey, Null)
            IN /\ record # Null
               /\ record.version = LastReceived(dm', c).version
               /\ record.value = LastReceived(dm', c).value]_vars

\* the store operation that runs in this step, if it is a push
RunsPush == dm.ops # <<>> /\ Head(dm.ops).op = "push" /\ dm'.ops = Tail(dm.ops)

\* the frame of the push carries the context of the mutation that is pending
\* for the key
Acknowledges(f) ==
  /\ f.mutationContext = EmptyContext
  /\ HasChain(db, DmKey)
  /\ StateIn(db, DmKey).current.sub > 0
  /\ HasRecord(db, DmKey, StateIn(db, DmKey).current)
  /\ RecordIn(db, DmKey, StateIn(db, DmKey).current).context = EmptyContext

\* C27: a data frame that carries the mutationContext of a mutation submitted
\* for the key is pushed with resolves = that mutation's version: the
\* acknowledging push emits no OutdatedMutation, adds nothing to the outdated
\* list and garbage-collects the mutation's record and its initial record.
C27_AcknowledgedPushResolves ==
  [][(RunsPush /\ Acknowledges(Head(dm.ops).frame)) =>
       LET f == Head(dm.ops).frame
           mutation == StateIn(db, DmKey).current
       IN /\ emitted' = <<>>
          /\ StateIn(db', DmKey).outdated = StateIn(db, DmKey).outdated
          /\ ~HasRecord(db', DmKey, mutation)
          /\ HasRecord(db', DmKey, Initial(mutation)) => f.version = mutation.base]_vars

\* C28: every successful Updater.commit leads to exactly one Backend.mutate
\* call (the PendingMutation of the commit forwarded to the backend), and a
\* failed one to none: once the store has run every operation started, the
\* backend has been called as many times as commits have succeeded.
C28_CommitForwarded ==
  dm.ops = <<>> => dm.mutates = dm.committed

\* a record built from a data frame of the backend, not read from the store
IsFrameRecord(record) == record.context = Undefined

\* C29: request(key) serves from the store and then from the backend: for
\* every interleaving of the store's fetch callback and the backend's data
\* frames, a stored record is never delivered to a subscriber after a backend
\* frame of another version.
C29_StoreThenBackend ==
  \A c \in Clients :
    \A i, j \in 1..Len(dm.received[c]) :
      (i < j /\ IsFrameRecord(dm.received[c][i]) /\ ~IsFrameRecord(dm.received[c][j])) =>
        dm.received[c][j].version.base = dm.received[c][i].version.base

\* the store operation that runs in this step, if it is a commit
RunsCommit == dm.ops # <<>> /\ Head(dm.ops).op = "commit" /\ dm'.ops = Tail(dm.ops)

\* C30: Updater.commit commits against the version of the record the Updater
\* was created from: if that version is still current, the store's current
\* version afterwards has the same base, sub > 0 and the Updater's value; if
\* the current version has changed, the commit fails and the store is
\* unchanged.
C30_UpdaterCommit ==
  [][RunsCommit =>
       LET o == Head(dm.ops)
       IN IF HasChain(db, DmKey) /\ VersionIsEqual(StateIn(db, DmKey).current, o.target)
          THEN /\ dm'.committed = dm.committed + 1
               /\ StateIn(db', DmKey).current.base = o.target.base
               /\ StateIn(db', DmKey).current.sub > 0
               /\ Fetch(db', DmKey, Null) # Null
               /\ Fetch(db', DmKey, Null).value = o.value
          ELSE /\ dm'.committed = dm.committed
               /\ db' = db]_vars

\* the last call of mutate was against a base other than the stored version
MutateMismatch ==
  /\ backend.call # Null
  /\ backend.before # Null
  /\ backend.before.version # backend.call.baseVersion

RECURSIVE StructEq(_, _)
StructEq(x, y) ==
  /\ x.t = y.t
  /\ x.a = y.a
  /\ Len(x.items) = Len(y.items)
  /\ IF x.t = "object"
     THEN /\ {x.keys[i] : i \in 1..Len(x.keys)} = {y.keys[i] : i \in 1..Len(y.keys)}
          /\ \A i \in 1..Len(x.keys) : StructEq(x.items[i], Prop(y, x.keys[i]))
     ELSE \A i \in 1..Len(x.items) : StructEq(x.items[i], y.items[i])

\* C32: key serialization is insensitive to property order: structurally
\* equal inputs (same keys and values, any key order, recursively) have equal
\* serializations; array element order is preserved, so arrays that are not
\* structurally equal serialize differently.
C32_SerializeOrderInsensitive ==
  json.done =>
    /\ StructEq(json.x, json.y) => json.sx = json.sy
    /\ (json.x.t = "array" /\ json.y.t = "array" /\ ~StructEq(json.x, json.y)) =>
          json.sx # json.sy

\* two objects with the same properties in different enumeration order, also
\* in a nested object, have been serialized
C32_Witness ==
  /\ json.done
  /\ json.x.t = "object"
  /\ StructEq(json.x, json.y)
  /\ json.x.keys # json.y.keys
  /\ \E i \in 1..Len(json.x.items) :
       json.x.items[i].t = "object" /\ json.x.items[i] # Prop(json.y, json.x.keys[i])

\* C33: values held by the store are isolated from the caller: after an
\* object was passed to push or commit, or returned by fetch or in an
\* Updater, editing it changes no persisted record; in particular after
\* beginUpdate, an edit of updater.value, commit and abandon, fetch(key)
\* returns the value that was pushed.
C33_ValuesIsolated ==
  /\ heap.initial # 0 => heap.content[heap.initial] = heap.pushedValue
  /\ heap.mutation # 0 => heap.content[heap.mutation] = heap.committedValue
  /\ (heap.lastop = "fetch" /\ heap.abandoned /\ heap.current = "initial") =>
       heap.content[heap.fetched] = heap.pushedValue

\* C34: abandon with a target of sub > 0 that is neither the current version
\* nor in the outdated list leaves the ChainState and every record unchanged;
\* in particular the record at target.initial stays.
AbandonsUnknown ==
  /\ last.op = "abandon"
  /\ last.result = "ok"
  /\ last.target.sub > 0
  /\ ~VersionIsEqual(last.target, StateIn(pre, last.key).current)
  /\ last.target \notin OutdatedSet(pre, last.key)

C34_AbandonUnknownUnchanged == AbandonsUnknown => db = pre

\* C35: vacuous removes are tolerated: when a record that push, commit or
\* abandon tries to remove is already absent, the operation still completes,
\* persists its final ChainState and leaves invariants 1-4 satisfied.
\* the database of commit after its two writes (steps 3 and 4)
CommitWritten(d, k, version, mutation, context) ==
  TxnPut(TxnPut(d, ChainsStore, ChainKeySerial(k),
                ChainState(version, ChainStateOf(d, k).outdated)),
         RecordsStore, RecordKeySerial(k, version), Entry(mutation, context))

\* the operation made last called remove for a record that was absent
VacuousRemove ==
  IF last.op = "push"
  THEN LET state == ChainStateOf(pre, last.key)
       IN /\ PushCollects(state, last.base, last.resolves)
          /\ ~RemoveOk(PushWritten(pre, last.key, last.base, last.value, last.resolves),
                       last.key, state.current)
  ELSE IF last.op = "commit"
  THEN /\ last.result = "ok"
       /\ ~IsInitial(last.target)
       /\ ~TxnRemoveOk(CommitWritten(pre, last.key, last.version, last.mutation,
                                     last.context),
                       RecordsStore, RecordKeySerial(last.key, last.target))
  ELSE IF last.op = "abandon"
  THEN /\ last.result = "ok"
       /\ IF VersionIsEqual(last.target, ChainStateOf(pre, last.key).current)
          THEN ~TxnRemoveOk(pre, RecordsStore, RecordKeySerial(last.key, last.target))
          ELSE ~RemoveOk(pre, last.key, last.target)
  ELSE FALSE

C35_VacuousRemoveTolerated ==
  (VacuousRemove /\ InvariantsHold(pre)) =>
    /\ last.result = "ok"
    /\ HasChain(db, last.key)
    /\ InvariantsHold(db)

\* C36: push, commit and abandon on one key leave the ChainState and the
\* records of every other key unchanged and emit events for their own key
\* only; distinct (ChainKey, Version) pairs never address the same stored
\* record.
OtherKeyUnchanged(k) ==
  /\ TxnGet(db, ChainsStore, ChainKeySerial(k)) = TxnGet(pre, ChainsStore, ChainKeySerial(k))
  /\ \A v \in Versions : FetchRecord(db, k, v) = FetchRecord(pre, k, v)

C36_KeysIndependent ==
  /\ last.op \in {"push", "commit", "abandon"} =>
       \A k \in ManyKeys \ {last.key} : OtherKeyUnchanged(k)
  /\ \A i \in 1..Len(emitted) : emitted[i].key = last.key
  /\ \A k, k2 \in ManyKeys, v, w \in Versions :
       ((k # k2 \/ v # w) /\ FetchRecord(db, k, v) # Null /\ FetchRecord(db, k2, w) # Null)
         => RecordKeySerial(k, v) # RecordKeySerial(k2, w)

\* C37: a push whose base is the base of the chain's current initial version
\* overwrites that record's value with the pushed value, removes nothing,
\* emits no event and leaves current and the outdated list unchanged.
PushOnSameInitial ==
  PushOnInitial /\ StateIn(pre, last.key).current.base = last.base

C37_PushSameBaseOverwrites ==
  PushOnSameInitial =>
    /\ RecordIn(db, last.key, PlainVersion(last.base, 0)) = PushedRecord
    /\ DOMAIN pre.records \subseteq DOMAIN db.records
    /\ emitted = <<>>
    /\ StateIn(db, last.key) = StateIn(pre, last.key)

\* such a push with a value other than the one the record had
C37_Witness ==
  /\ PushOnSameInitial
  /\ HasRecord(pre, last.key, PlainVersion(last.base, 0))
  /\ RecordIn(pre, last.key, PlainVersion(last.base, 0)).value # last.value
  /\ RecordIn(db, last.key, PlainVersion(last.base, 0)).value = last.value

\* C39: after send(v) returns, every observer subscribed at that time has v
\* as the last value it received, also one that subscribed from inside a
\* callback while v was being dispatched.
\* no send is in progress and the send that returned last is the one called last
SendReturned ==
  /\ stream.stack = <<>>
  /\ stream.finished # Null
  /\ stream.finished.value = stream.sent[Len(stream.sent)]

C39_SentIsLastReceived ==
  SendReturned =>
    \A o \in stream.live :
      /\ stream.received[o] # <<>>
      /\ stream.received[o][Len(stream.received[o])] = stream.finished.value

\* C38: Stream.close delivers a completion notice to every subscriber that is
\* subscribed when close is called, also when subscribers detach themselves
\* from the stream as a reaction to the completion.
C38_CloseCompletesAll ==
  stream.closed # Null => stream.closed.audience \subseteq stream.closed.got

====
